---- MODULE Spec2Model ----
(***************************************************************************)
(* Reservation coordinator of the ticketing platform: BookingService       *)
(* (createBooking, cancelBooking), EventService (updateEvent, deleteEvent),*)
(* EventAvailabilityService, the idempotency middleware and the Redis      *)
(* CacheService, over one Event document and its Booking documents.        *)
(*                                                                         *)
(* Every await of the source is one step: calls of different requests      *)
(* interleave at the store and cache operations and nowhere else.          *)
(***************************************************************************)
EXTENDS Integers, Sequences, FiniteSets, TLC

\* ------------------------------------------------------------------ bounds
MaxCalls == 3          \* requests issued in one behaviour
MaxInFlight == 2       \* requests being served at the same time
MaxTotal == 2          \* largest totalTickets of the event
MaxQty == 2            \* largest quantity of one request (the schema allows 10)
MaxFaults == 1         \* store operations that fail (network, server error)

NumUsers == 2          \* distinct authenticated users
NumKeys == 3           \* distinct idempotency keys (UUIDs)

\* enum EventStatus
EventStatus == {"draft", "published", "cancelled", "completed"}

Users == 1..NumUsers
Keys == 1..NumKeys
Nil == "nil"

\* HTTP status codes
CREATED == 201
OK == 200
NOT_FOUND == 404
BAD_REQUEST == 400
CONFLICT == 409
INTERNAL_SERVER_ERROR == 500

VARIABLES
    event,        \* the Event document: totalTickets, availableTickets, version, deleted,
                  \* status
    bookings,     \* the Booking collection, in insertion order; the index is the _id
    ledger,       \* Redis idempotency:<key> entries: key -> cached response or NoResponse
    availCache,   \* Redis event:availability:<id> entry, or NoSnapshot
    redisUp,      \* the CacheService has a live client
    calls,        \* the requests issued so far, in order of arrival
    faults        \* store operations that have failed so far

vars == <<event, bookings, ledger, availCache, redisUp, calls, faults>>

\* ------------------------------------------------------------------ values
NoResponse == [statusCode |-> 0, id |-> 0, ticketNumber |-> <<>>]
NoSnapshot == [totalTickets |-> -1, availableTickets |-> -1, version |-> -1]

\* generateTicketNumber: TKT-<last six of the event id>-<sequence padded to six>.
\* padStart never truncates, so the text is determined by, and determines, the pair.
generateTicketNumber(eventShortId, sequence) == <<"TKT", eventShortId, sequence>>

EventShortId == "E"

\* The stored idempotencyKey: the request's key on the single path, `${key}-${i}`
\* on the multi-ticket path. A request key is a UUID, so "<uuid>-<i>" is never one.
SingleKey(k) == <<k>>
UnitKey(k, i) == <<k, i>>

\* errorHandler: the status code the client gets for a thrown error: an AppError's
\* own code, 409 for a MongoServerError with code 11000, 500 for anything else.
errorHandler(err) ==
    CASE err = "ConflictError" -> CONFLICT
      [] err = "ValidationError" -> BAD_REQUEST
      [] err = "NotFoundError" -> NOT_FOUND
      [] err = "MongoServerError11000" -> CONFLICT
      [] OTHER -> INTERNAL_SERVER_ERROR

ErrorResponse(err) == [statusCode |-> errorHandler(err), id |-> 0, ticketNumber |-> <<>>]

BookingResponse(code, id) ==
    [statusCode |-> code, id |-> id, ticketNumber |-> bookings[id].ticketNumber]

\* ------------------------------------------------------------------ store queries
BookingIds == DOMAIN bookings

\* BookingModel.findOne({ idempotencyKey })
FindByKey(k) == {b \in BookingIds : bookings[b].idempotencyKey = SingleKey(k)}

\* BookingModel.countDocuments({ eventId })
countDocuments == Len(bookings)

\* BookingModel.countDocuments({ eventId, status: CONFIRMED, deletedAt: null })
ConfirmedIds == {b \in BookingIds : bookings[b].status = "confirmed"}

\* a variant without the unique index on idempotencyKey
mutant_Duplicate(docs) ==
    \/ \E i \in DOMAIN docs : \E b \in BookingIds :
          bookings[b].ticketNumber = docs[i].ticketNumber
    \/ \E i, j \in DOMAIN docs :
          i # j /\ docs[i].ticketNumber = docs[j].ticketNumber

\* The unique indexes of bookingSchema: ticketNumber and idempotencyKey.
Duplicate(docs) ==
    \/ \E i \in DOMAIN docs : \E b \in BookingIds :
          \/ bookings[b].ticketNumber = docs[i].ticketNumber
          \/ bookings[b].idempotencyKey = docs[i].idempotencyKey
    \/ \E i, j \in DOMAIN docs :
          /\ i # j
          /\ \/ docs[i].ticketNumber = docs[j].ticketNumber
             \/ docs[i].idempotencyKey = docs[j].idempotencyKey

\* ------------------------------------------------------------------ requests
NewCall(op, user, key, qty, bid, newTotal) ==
    [op |-> op, pc |-> IF op = "create" THEN "middleware" ELSE "load",
     user |-> user, key |-> key, qty |-> qty, bid |-> bid, newTotal |-> newTotal,
     newStatus |-> Nil,         \* data.status of updateEvent, Nil when undefined
     hdr |-> "uuid",            \* the Idempotency-Key header: uuid, absent or malformed
     body |-> "uuid",           \* body.idempotencyKey: uuid, absent or malformed
     role |-> "user",           \* req.user.role, from the token
     snap |-> NoSnapshot,       \* the Event document as this request read it
     cnt |-> 0,                 \* bookingCount as this request read it
     made |-> {},               \* _ids of the Booking documents it inserted
     err |-> Nil,               \* the error it is propagating
     res |-> NoResponse,        \* the response sent to the client
     seen |-> NoSnapshot,       \* the availability returned by getAvailability
     \* history, for stating properties only
     after |-> {c \in DOMAIN calls : calls[c].pc = "done"},
     dec |-> 0,                 \* guarded decrements applied to the event
     inc |-> 0,                 \* increments applied to the event
     hit |-> FALSE,             \* answered from the cache
     marked |-> FALSE]          \* its booking.save() set status cancelled

\* Users and keys are opaque to the program: a request uses one already seen or the
\* next unused one, which leaves out only renamings of the same behaviour.
Fresh(seen, all) == {x \in all : \A y \in all : y < x => y \in seen}

SeenUsers == {calls[c].user : c \in DOMAIN calls} \ {0}
SeenKeys == {calls[c].key : c \in DOMAIN calls} \ {0}

InFlight == {c \in DOMAIN calls : calls[c].pc # "done"}

At(c, op, pc) == c \in DOMAIN calls /\ calls[c].op = op /\ calls[c].pc = pc

Set(c, fields) ==
    [calls EXCEPT ![c] = [f \in DOMAIN calls[c] |->
        IF f \in DOMAIN fields THEN fields[f] ELSE calls[c][f]]]

\* the response is sent; the request's locals are gone
Done(c, resp) == Set(c, [pc |-> "done", res |-> resp, snap |-> NoSnapshot, cnt |-> 0])

Fail(c, err) ==
    Set(c, [pc |-> "done", err |-> err, res |-> ErrorResponse(err),
            snap |-> NoSnapshot, cnt |-> 0])

\* a store operation either answers or, while the fault budget lasts, fails
Outcomes == IF faults < MaxFaults THEN {TRUE, FALSE} ELSE {TRUE}

Init ==
    /\ \E t \in 1..MaxTotal :
         event = [totalTickets |-> t, availableTickets |-> t, version |-> 0, deleted |-> FALSE,
                  status |-> "published"]
    /\ bookings = <<>>
    /\ ledger = [k \in Keys |-> NoResponse]
    /\ availCache = NoSnapshot
    /\ redisUp = TRUE
    /\ calls = <<>>
    /\ faults = 0

\* ------------------------------------------------------------------ arrivals
CanStart == Len(calls) < MaxCalls /\ Cardinality(InFlight) < MaxInFlight

\* POST /bookings
StartCreate ==
    /\ CanStart
    /\ \E u \in Fresh(SeenUsers, Users), k \in Fresh(SeenKeys, Keys), q \in 1..MaxQty :
         calls' = Append(calls, NewCall("create", u, k, q, 0, 0))
    /\ UNCHANGED <<event, bookings, ledger, availCache, redisUp, faults>>

\* the forms of a key that is not a UUID
BadForms == {"absent", "malformed"}

\* POST /bookings without a usable key: the header is absent or malformed, or the
\* header is a UUID and body.idempotencyKey is absent or malformed. Nothing on these
\* paths reads the user, the quantity or, under a bad header, the body.
StartCreateInvalid ==
    /\ CanStart
    /\ \/ \E h \in BadForms :
            calls' = Append(calls, [NewCall("create", 1, 0, 1, 0, 0) EXCEPT !.hdr = h])
       \/ \E k \in Fresh(SeenKeys, Keys), b \in BadForms :
            calls' = Append(calls, [NewCall("create", 1, k, 1, 0, 0) EXCEPT !.body = b])
    /\ UNCHANGED <<event, bookings, ledger, availCache, redisUp, faults>>

\* ------------------------------------------------------------------ CacheService
\* a variant that reads the entry without testing for a client
mutant_CacheGet(entry, miss) == entry

\* CacheService.get: null without a client or when the read throws
CacheGet(entry, miss) == IF redisUp THEN entry ELSE miss

\* ------------------------------------------------------------------ createBooking
\* a variant that answers a replay with 200 instead of the stored status code
mutant_ReplayResponse(cached) == [cached EXCEPT !.statusCode = OK]

\* res.status(cachedResponse.statusCode).json(cachedResponse.body)
ReplayResponse(cached) == cached

\* the test of the Idempotency-Key header: present and matching the UUID pattern
ValidHeader(c) == calls[c].hdr = "uuid"

\* validateBody(createBookingSchema): body.idempotencyKey must be a UUID string
ValidateBody(c) == calls[c].body = "uuid"

\* idempotencyMiddleware: a missing or malformed header is a ValidationError; then
\* cache.get(idempotency:<key>), and a hit is answered at once. On a miss the next
\* handler, validateBody, runs in the same turn.
IdempotencyMiddleware(c) ==
    /\ At(c, "create", "middleware")
    /\ IF ~ValidHeader(c) THEN calls' = Fail(c, "ValidationError")
       ELSE LET cached == CacheGet(ledger[calls[c].key], NoResponse) IN
         calls' = IF cached # NoResponse
                    THEN Set(c, [pc |-> "done", res |-> ReplayResponse(cached), hit |-> TRUE])
                    ELSE IF ~ValidateBody(c) THEN Fail(c, "ValidationError")
                    ELSE Set(c, [pc |-> "findOne"])
    /\ UNCHANGED <<event, bookings, ledger, availCache, redisUp, faults>>

\* createBooking step 1: BookingModel.findOne({ idempotencyKey }) and, when a document
\* has the key, return this.getBookingById(existingBooking._id) with no owner filter
\* (a read of fields that never change; the controller then caches the response)
CreateFindOne(c) ==
    /\ At(c, "create", "findOne")
    /\ calls' = IF FindByKey(calls[c].key) # {}
                  THEN Set(c, [pc |-> "cachePut",
                               res |-> BookingResponse(CREATED,
                                         CHOOSE b \in FindByKey(calls[c].key) : TRUE)])
                  ELSE Set(c, [pc |-> "findEvent"])
    /\ UNCHANGED <<event, bookings, ledger, availCache, redisUp, faults>>

\* createBooking step 2: Event.findById and the fast pre-check
CreateFindEvent(c) ==
    /\ At(c, "create", "findEvent")
    /\ calls' = IF event.deleted THEN Fail(c, "NotFoundError")
                ELSE IF event.availableTickets < calls[c].qty THEN Fail(c, "ConflictError")
                ELSE Set(c, [pc |-> "decrement"])
    /\ UNCHANGED <<event, bookings, ledger, availCache, redisUp, faults>>

\* a variant of the guard that trusts the cached availability when there is one
mutant_CachedGuard(q) ==
    /\ (IF availCache # NoSnapshot THEN availCache.availableTickets
                                   ELSE event.availableTickets) >= q
    /\ ~event.deleted

\* a variant of the guard without the $gte test
mutant_DecrementGuard(q) == ~event.deleted

\* the filter of the atomic findOneAndUpdate: availableTickets >= quantity, not deleted

DecrementGuard(q) == event.availableTickets >= q /\ ~event.deleted

\* createBooking step 3: Event.findOneAndUpdate with $gte guard and $inc
\* a variant of the decrement that looks the event up again when the guard fails
mutant_CreateDecrement(c) ==
    /\ At(c, "create", "decrement")
    /\ IF DecrementGuard(calls[c].qty)
         THEN /\ event' = [event EXCEPT !.availableTickets = @ - calls[c].qty,
                                        !.version = @ + 1]
              /\ calls' = Set(c, [pc |-> "count", dec |-> calls[c].dec + 1])
         ELSE /\ event' = event
              /\ calls' = Set(c, [pc |-> "findEvent"])
    /\ UNCHANGED <<bookings, ledger, availCache, redisUp, faults>>

CreateDecrement(c) ==
    /\ At(c, "create", "decrement")
    /\ IF DecrementGuard(calls[c].qty)
         THEN /\ event' = [event EXCEPT !.availableTickets = @ - calls[c].qty,
                                        !.version = @ + 1]
              /\ calls' = Set(c, [pc |-> "count", dec |-> calls[c].dec + 1])
         ELSE /\ event' = event
              /\ calls' = Fail(c, "ConflictError")
    /\ UNCHANGED <<bookings, ledger, availCache, redisUp, faults>>

\* createSingleBooking / createMultipleBookings: BookingModel.countDocuments({ eventId })
CreateCount(c) ==
    /\ At(c, "create", "count")
    /\ calls' = Set(c, [pc |-> "insert", cnt |-> countDocuments])
    /\ UNCHANGED <<event, bookings, ledger, availCache, redisUp, faults>>

\* the documents the request builds: one with the request's key, or one per ticket
NewBookings(c) ==
    IF calls[c].qty = 1
      THEN << [userId |-> calls[c].user, status |-> "confirmed",
               ticketNumber |-> generateTicketNumber(EventShortId, calls[c].cnt + 1),
               idempotencyKey |-> SingleKey(calls[c].key)] >>
      ELSE [i \in 1..calls[c].qty |->
              [userId |-> calls[c].user, status |-> "confirmed",
               ticketNumber |-> generateTicketNumber(EventShortId, calls[c].cnt + (i - 1) + 1),
               idempotencyKey |-> UnitKey(calls[c].key, i - 1)]]

\* the error a rejected insert throws: booking.save() a MongoServerError with code
\* 11000, insertMany a bulk-write error (another class name); a failed store
\* operation a network error
InsertError(c, ok) ==
    IF ~ok THEN "MongoNetworkError"
    ELSE IF calls[c].qty = 1 THEN "MongoServerError11000"
    ELSE "MongoBulkWriteError"

\* booking.save() / insertMany + commitTransaction: all documents or none
CreateInsert(c) ==
    /\ At(c, "create", "insert")
    /\ \E ok \in Outcomes :
         LET docs == NewBookings(c) IN
         IF ok /\ ~Duplicate(docs)
           THEN /\ bookings' = bookings \o docs
                /\ calls' = Set(c, [pc |-> "readBack",
                                    made |-> (Len(bookings) + 1)..(Len(bookings) + Len(docs))])
                /\ faults' = faults
           ELSE /\ bookings' = bookings
                /\ calls' = Set(c, [pc |-> "rollback", err |-> InsertError(c, ok)])
                /\ faults' = IF ok THEN faults ELSE faults + 1
    /\ UNCHANGED <<event, ledger, availCache, redisUp>>

\* return this.getBookingById(booking._id) / (bookings[0]._id), inside the try block
CreateReadBack(c) ==
    /\ At(c, "create", "readBack")
    /\ \E ok \in Outcomes :
         IF ok
           THEN /\ calls' = Set(c, [pc |-> "invalidate",
                                    res |-> BookingResponse(CREATED,
                                              CHOOSE b \in calls[c].made :
                                                \A o \in calls[c].made : b <= o)])
                /\ faults' = faults
           ELSE /\ calls' = Set(c, [pc |-> "rollback", err |-> "MongoNetworkError"])
                /\ faults' = faults + 1
    /\ UNCHANGED <<event, bookings, ledger, availCache, redisUp>>

\* a variant that recomputes availableTickets from the confirmed bookings
mutant_Recount(n) ==
    IF event.deleted THEN event
    ELSE [event EXCEPT !.availableTickets = event.totalTickets - Cardinality(ConfirmedIds),
                       !.version = @ + 1]

\* findByIdAndUpdate runs the pre(/^find/) hook: a soft-deleted event is not matched
findByIdAndUpdateInc(n) ==
    IF event.deleted THEN event
    ELSE [event EXCEPT !.availableTickets = @ + n, !.version = @ + 1]

\* catch: Event.findByIdAndUpdate($inc availableTickets: quantity), then rethrow
CreateRollback(c) ==
    /\ At(c, "create", "rollback")
    /\ event' = findByIdAndUpdateInc(calls[c].qty)
    /\ calls' = Set(c, [pc |-> "invalidate",
                        inc |-> calls[c].inc + (IF event.deleted THEN 0 ELSE 1)])
    /\ UNCHANGED <<bookings, ledger, availCache, redisUp, faults>>

\* a variant of del that leaves the entry in place
mutant_CacheDel == availCache

\* CacheService.del: a no-op without a client
CacheDel == IF redisUp THEN NoSnapshot ELSE availCache

\* finally: availabilityService.invalidateCache(eventId)
CreateInvalidate(c) ==
    /\ At(c, "create", "invalidate")
    /\ availCache' = CacheDel
    /\ calls' = IF calls[c].err # Nil THEN Fail(c, calls[c].err)
                ELSE Set(c, [pc |-> "cachePut"])
    /\ UNCHANGED <<event, bookings, ledger, redisUp, faults>>

\* BookingController.create: cacheIdempotencyResponse(key, 201, response), then respond
CacheIdempotencyResponse(c) ==
    /\ At(c, "create", "cachePut")
    /\ ledger' = IF redisUp THEN [ledger EXCEPT ![calls[c].key] = calls[c].res] ELSE ledger
    /\ calls' = Done(c, calls[c].res)
    /\ UNCHANGED <<event, bookings, availCache, redisUp, faults>>

CreateBooking(c) ==
    \/ IdempotencyMiddleware(c)
    \/ CreateFindOne(c)
    \/ CreateFindEvent(c)
    \/ CreateDecrement(c)
    \/ CreateCount(c)
    \/ CreateInsert(c)
    \/ CreateReadBack(c)
    \/ CreateRollback(c)
    \/ CreateInvalidate(c)
    \/ CacheIdempotencyResponse(c)

\* ------------------------------------------------------------------ cancelBooking
\* PATCH /bookings/:id/cancel; id 0 stands for a well-formed id of no document
StartCancel ==
    /\ CanStart
    /\ \E u \in Fresh(SeenUsers, Users), b \in BookingIds \cup {0} :
         calls' = Append(calls, NewCall("cancel", u, 0, 0, b, 0))
    /\ UNCHANGED <<event, bookings, ledger, availCache, redisUp, faults>>

\* PATCH /bookings/:id/cancel with the token of an administrator
StartCancelElevated ==
    /\ CanStart
    /\ \E u \in Fresh(SeenUsers, Users), b \in BookingIds \cup {0} :
         calls' = Append(calls, [NewCall("cancel", u, 0, 0, b, 0) EXCEPT !.role = "admin"])
    /\ UNCHANGED <<event, bookings, ledger, availCache, redisUp, faults>>

\* a variant of the ownership test that lets any caller through
mutant_IsOwner(b, u) == TRUE

\* the ownership test of cancelBooking: the caller's id against booking.userId
IsOwner(b, u) == bookings[b].userId = u

\* BookingModel.findById, the ownership check and the already-cancelled check
CancelLoad(c) ==
    /\ At(c, "cancel", "load")
    /\ LET b == calls[c].bid IN
         calls' = IF b \notin BookingIds THEN Fail(c, "NotFoundError")
                  ELSE IF ~IsOwner(b, calls[c].user) THEN Fail(c, "NotFoundError")
                  ELSE IF bookings[b].status = "cancelled" THEN Fail(c, "ConflictError")
                  ELSE Set(c, [pc |-> "save"])
    /\ UNCHANGED <<event, bookings, ledger, availCache, redisUp, faults>>

\* a variant of the cancellation that also releases the document's idempotency key
mutant_CancelledDocument(doc) == [doc EXCEPT !.status = "cancelled", !.idempotencyKey = <<>>]

\* what cancelBooking assigns before booking.save(): status (with cancelledAt and
\* cancellationReason, which nothing reads); the other paths are not modified
CancelledDocument(doc) == [doc EXCEPT !.status = "cancelled"]

\* booking.save(): $set of status, cancelledAt and the reason on the document's _id
CancelSave(c) ==
    /\ At(c, "cancel", "save")
    /\ \E ok \in Outcomes :
         IF ok
           THEN /\ bookings' = [bookings EXCEPT ![calls[c].bid] = CancelledDocument(@)]
                /\ calls' = Set(c, [pc |-> "increment", marked |-> TRUE])
                /\ faults' = faults
           ELSE /\ bookings' = bookings
                /\ calls' = Fail(c, "MongoNetworkError")
                /\ faults' = faults + 1
    /\ UNCHANGED <<event, ledger, availCache, redisUp>>

\* Event.findByIdAndUpdate($inc availableTickets: 1, version: 1)
CancelIncrement(c) ==
    /\ At(c, "cancel", "increment")
    /\ \E ok \in Outcomes :
         IF ok
           THEN /\ event' = findByIdAndUpdateInc(1)
                /\ calls' = Set(c, [pc |-> "invalidate",
                                    inc |-> calls[c].inc + (IF event.deleted THEN 0 ELSE 1)])
                /\ faults' = faults
           ELSE /\ event' = event
                /\ calls' = Fail(c, "MongoNetworkError")
                /\ faults' = faults + 1
    /\ UNCHANGED <<bookings, ledger, availCache, redisUp>>

\* invalidateCache(eventId), then return this.getBookingById(bookingId)
CancelInvalidate(c) ==
    /\ At(c, "cancel", "invalidate")
    /\ availCache' = CacheDel
    /\ calls' = Done(c, BookingResponse(OK, calls[c].bid))
    /\ UNCHANGED <<event, bookings, ledger, redisUp, faults>>

CancelBooking(c) ==
    \/ CancelLoad(c)
    \/ CancelSave(c)
    \/ CancelIncrement(c)
    \/ CancelInvalidate(c)

\* ------------------------------------------------------------------ updateEvent
\* PUT /events/:id with a totalTickets
StartUpdate ==
    /\ CanStart
    /\ \E t \in 1..MaxTotal :
         calls' = Append(calls, NewCall("update", 0, 0, 0, 0, t))
    /\ UNCHANGED <<event, bookings, ledger, availCache, redisUp, faults>>

\* PUT /events/:id with a status
StartUpdateStatus ==
    /\ CanStart
    /\ \E st \in EventStatus :
         calls' = Append(calls, [NewCall("update", 0, 0, 0, 0, 0) EXCEPT !.newStatus = st])
    /\ UNCHANGED <<event, bookings, ledger, availCache, redisUp, faults>>

EventSnapshot ==
    [totalTickets |-> event.totalTickets, availableTickets |-> event.availableTickets,
     version |-> event.version]

\* the Event document as updateEvent loads it
EventDocument ==
    [totalTickets |-> event.totalTickets, availableTickets |-> event.availableTickets,
     version |-> event.version, status |-> event.status]

\* data.totalTickets !== undefined && data.totalTickets !== event.totalTickets;
\* newTotal 0 stands for an undefined totalTickets
TotalChanges(c, doc) == calls[c].newTotal # 0 /\ calls[c].newTotal # doc.totalTickets

\* data.status !== undefined, and the assignment modifies the path
StatusChanges(c, doc) == calls[c].newStatus # Nil /\ calls[c].newStatus # doc.status

\* newAvailable of updateEvent, from the document as it was read
NewAvailable(snap, newTotal) == snap.availableTickets + (newTotal - snap.totalTickets)

\* Event.findById, and the check that the new total covers the booked tickets
UpdateLoad(c) ==
    /\ At(c, "update", "load")
    /\ calls' = IF event.deleted THEN Fail(c, "NotFoundError")
                ELSE IF /\ TotalChanges(c, EventDocument)
                        /\ NewAvailable(EventDocument, calls[c].newTotal) < 0
                  THEN Fail(c, "ConflictError")
                ELSE Set(c, [pc |-> "save", snap |-> EventDocument])
    /\ UNCHANGED <<event, bookings, ledger, availCache, redisUp, faults>>

\* event.save(): $set of the modified paths, computed from the document as read;
\* the pre('save') hook sets version to the read version plus one
UpdateSave(c) ==
    /\ At(c, "update", "save")
    /\ LET snap == calls[c].snap IN
         event' = IF ~TotalChanges(c, snap) /\ ~StatusChanges(c, snap) THEN event
                  ELSE [event EXCEPT
                          !.totalTickets = IF TotalChanges(c, snap) THEN calls[c].newTotal
                                           ELSE @,
                          !.availableTickets = IF TotalChanges(c, snap)
                                                 THEN NewAvailable(snap, calls[c].newTotal)
                                               ELSE @,
                          !.status = IF StatusChanges(c, snap) THEN calls[c].newStatus ELSE @,
                          !.version = snap.version + 1]
    /\ calls' = Set(c, [pc |-> "invalidate"])
    /\ UNCHANGED <<bookings, ledger, availCache, redisUp, faults>>

\* invalidateCache(eventId), then return this.getEventById(eventId)
UpdateInvalidate(c) ==
    /\ At(c, "update", "invalidate")
    /\ availCache' = CacheDel
    /\ calls' = IF event.deleted THEN Fail(c, "NotFoundError")
                ELSE Done(c, [statusCode |-> OK, id |-> 0, ticketNumber |-> <<>>])
    /\ UNCHANGED <<event, bookings, ledger, redisUp, faults>>

UpdateEvent(c) ==
    \/ UpdateLoad(c)
    \/ UpdateSave(c)
    \/ UpdateInvalidate(c)

\* ------------------------------------------------------------------ deleteEvent
\* DELETE /events/:id
StartDelete ==
    /\ CanStart
    /\ calls' = Append(calls, NewCall("delete", 0, 0, 0, 0, 0))
    /\ UNCHANGED <<event, bookings, ledger, availCache, redisUp, faults>>

\* Event.findById
DeleteLoad(c) ==
    /\ At(c, "delete", "load")
    /\ calls' = IF event.deleted THEN Fail(c, "NotFoundError")
                ELSE Set(c, [pc |-> "count", snap |-> EventSnapshot])
    /\ UNCHANGED <<event, bookings, ledger, availCache, redisUp, faults>>

\* BookingModel.countDocuments({ eventId, status: CONFIRMED, deletedAt: null })
DeleteCount(c) ==
    /\ At(c, "delete", "count")
    /\ calls' = IF Cardinality(ConfirmedIds) > 0 THEN Fail(c, "ConflictError")
                ELSE Set(c, [pc |-> "save"])
    /\ UNCHANGED <<event, bookings, ledger, availCache, redisUp, faults>>

\* event.deletedAt = new Date(); event.save()
DeleteSave(c) ==
    /\ At(c, "delete", "save")
    /\ event' = [event EXCEPT !.deleted = TRUE, !.version = calls[c].snap.version + 1]
    /\ calls' = Set(c, [pc |-> "invalidate"])
    /\ UNCHANGED <<bookings, ledger, availCache, redisUp, faults>>

\* invalidateCache(eventId)
DeleteInvalidate(c) ==
    /\ At(c, "delete", "invalidate")
    /\ availCache' = CacheDel
    /\ calls' = Done(c, [statusCode |-> OK, id |-> 0, ticketNumber |-> <<>>])
    /\ UNCHANGED <<event, bookings, ledger, redisUp, faults>>

DeleteEvent(c) ==
    \/ DeleteLoad(c)
    \/ DeleteCount(c)
    \/ DeleteSave(c)
    \/ DeleteInvalidate(c)

\* ------------------------------------------------------------------ getAvailability
StartAvailability ==
    /\ CanStart
    /\ calls' = Append(calls, NewCall("availability", 0, 0, 0, 0, 0))
    /\ UNCHANGED <<event, bookings, ledger, availCache, redisUp, faults>>

\* cache.get(event:availability:<id>): a hit is returned as it is
AvailabilityCacheGet(c) ==
    /\ At(c, "availability", "load")
    /\ calls' = IF CacheGet(availCache, NoSnapshot) # NoSnapshot
                  THEN Set(c, [pc |-> "done", seen |-> availCache, hit |-> TRUE,
                               res |-> [statusCode |-> OK, id |-> 0, ticketNumber |-> <<>>]])
                  ELSE Set(c, [pc |-> "read"])
    /\ UNCHANGED <<event, bookings, ledger, availCache, redisUp, faults>>

\* Event.findById
AvailabilityRead(c) ==
    /\ At(c, "availability", "read")
    /\ calls' = IF event.deleted THEN Fail(c, "Error")
                ELSE Set(c, [pc |-> "cacheSet",
                             snap |-> [EventSnapshot EXCEPT !.version = 0]])
    /\ UNCHANGED <<event, bookings, ledger, availCache, redisUp, faults>>

\* cache.set(event:availability:<id>, availability, ttl)
AvailabilityCacheSet(c) ==
    /\ At(c, "availability", "cacheSet")
    /\ availCache' = IF redisUp THEN calls[c].snap ELSE availCache
    /\ calls' = Set(c, [pc |-> "done", seen |-> calls[c].snap, snap |-> NoSnapshot,
                        res |-> [statusCode |-> OK, id |-> 0, ticketNumber |-> <<>>]])
    /\ UNCHANGED <<event, bookings, ledger, redisUp, faults>>

GetAvailability(c) ==
    \/ AvailabilityCacheGet(c)
    \/ AvailabilityRead(c)
    \/ AvailabilityCacheSet(c)

\* snapshots an availability entry can hold, right or wrong: sold out, or all free
Snapshots ==
    {[totalTickets |-> MaxTotal, availableTickets |-> a, version |-> 0] : a \in {0, MaxTotal}}

\* The entry event:availability:<id> is shared by every API process and outlives the
\* state it was computed from: while a request is being served, an entry may appear
\* that holds any snapshot.
StaleSnapshot ==
    /\ availCache = NoSnapshot
    /\ InFlight # {}
    /\ \E x \in Snapshots : availCache' = x
    /\ UNCHANGED <<event, bookings, ledger, redisUp, calls, faults>>

\* ------------------------------------------------------------------ Redis
\* the connection is lost: getRedisClient returns null, CacheService is a no-op
RedisDown ==
    /\ redisUp
    /\ redisUp' = FALSE
    /\ UNCHANGED <<event, bookings, ledger, availCache, calls, faults>>

\* the client is ready again
RedisReady ==
    /\ ~redisUp
    /\ redisUp' = TRUE
    /\ UNCHANGED <<event, bookings, ledger, availCache, calls, faults>>

\* ------------------------------------------------------------------ specifications
\* Every handler, for requests with a usable key from callers without a role of their
\* own. SpecValidate adds the requests without a usable key, SpecRoles the
\* administrators, SpecStale the availability entries written elsewhere.
Next ==
    \/ StartCreate
    \/ StartCancel
    \/ StartUpdate
    \/ StartDelete
    \/ StartAvailability
    \/ RedisDown
    \/ RedisReady
    \/ \E c \in 1..MaxCalls :
         \/ CreateBooking(c)
         \/ CancelBooking(c)
         \/ UpdateEvent(c)
         \/ DeleteEvent(c)
         \/ GetAvailability(c)

Spec == Init /\ [][Next]_vars

\* createBooking requests only
NextCreate ==
    \/ StartCreate
    \/ RedisDown
    \/ RedisReady
    \/ \E c \in 1..MaxCalls : CreateBooking(c)

SpecCreate == Init /\ [][NextCreate]_vars

\* createBooking requests contending for the event, with a Redis that stays up
NextContend ==
    \/ StartCreate
    \/ \E c \in 1..MaxCalls : CreateBooking(c)

SpecContend == Init /\ [][NextContend]_vars

\* as SpecContend, where every request whose pending operation has returned goes on:
\* each step of a handler is the continuation of an awaited store or cache operation,
\* which the event loop runs once the operation has returned
FairContend == SpecContend /\ \A c \in 1..MaxCalls : WF_vars(CreateBooking(c))

\* createBooking requests, with and without a usable key
NextValidate ==
    \/ StartCreateInvalid
    \/ NextCreate

SpecValidate == Init /\ [][NextValidate]_vars

\* createBooking requests beside an availability entry that changes at will
NextStale ==
    \/ StartCreate
    \/ StaleSnapshot
    \/ \E c \in 1..MaxCalls : CreateBooking(c)

\* as Init, with a store that answers every operation
InitStale ==
    /\ \E t \in 1..MaxTotal :
         event = [totalTickets |-> t, availableTickets |-> t, version |-> 0, deleted |-> FALSE,
                  status |-> "published"]
    /\ bookings = <<>>
    /\ ledger = [k \in Keys |-> NoResponse]
    /\ availCache = NoSnapshot
    /\ redisUp = TRUE
    /\ calls = <<>>
    /\ faults = MaxFaults

SpecStale == InitStale /\ [][NextStale]_vars

\* createBooking and cancelBooking requests
NextBooking ==
    \/ StartCreate
    \/ StartCancel
    \/ RedisDown
    \/ RedisReady
    \/ \E c \in 1..MaxCalls :
         \/ CreateBooking(c)
         \/ CancelBooking(c)

SpecBooking == Init /\ [][NextBooking]_vars

\* createBooking, cancelBooking and getAvailability requests, with a store that
\* answers every operation and a Redis that stays up
NextReads ==
    \/ StartCreate
    \/ StartCancel
    \/ StartAvailability
    \/ \E c \in 1..MaxCalls :
         \/ CreateBooking(c)
         \/ CancelBooking(c)
         \/ GetAvailability(c)

SpecReads == InitStale /\ [][NextReads]_vars

\* createBooking requests and status edits, on an event in any status, with a store
\* that answers every operation
NextStatus ==
    \/ StartCreate
    \/ StartUpdateStatus
    \/ \E c \in 1..MaxCalls :
         \/ CreateBooking(c)
         \/ UpdateEvent(c)

InitStatus ==
    /\ \E t \in 1..MaxTotal, st \in EventStatus :
         event = [totalTickets |-> t, availableTickets |-> t, version |-> 0, deleted |-> FALSE,
                  status |-> st]
    /\ bookings = <<>>
    /\ ledger = [k \in Keys |-> NoResponse]
    /\ availCache = NoSnapshot
    /\ redisUp = TRUE
    /\ calls = <<>>
    /\ faults = MaxFaults

SpecStatus == InitStatus /\ [][NextStatus]_vars

\* createBooking and cancelBooking requests, from users and from administrators
NextRoles ==
    \/ StartCancelElevated
    \/ NextBooking

SpecRoles == Init /\ [][NextRoles]_vars

\* createBooking requests on an event with room for two requests of the largest quantity
InitRace ==
    /\ event = [totalTickets |-> 2 * MaxQty, availableTickets |-> 2 * MaxQty,
                version |-> 0, deleted |-> FALSE, status |-> "published"]
    /\ bookings = <<>>
    /\ ledger = [k \in Keys |-> NoResponse]
    /\ availCache = NoSnapshot
    /\ redisUp = TRUE
    /\ calls = <<>>
    /\ faults = 0

SpecRace == InitRace /\ [][NextCreate]_vars

\* ------------------------------------------------------------------ properties
CallIds == DOMAIN calls
Returned(c) == calls[c].pc = "done"
Created(c) == Returned(c) /\ calls[c].res.statusCode = CREATED
Refused(c) == Returned(c) /\ calls[c].res.statusCode = CONFLICT
Creates == {c \in CallIds : calls[c].op = "create"}
Cancels == {c \in CallIds : calls[c].op = "cancel"}

\* C1: in every reachable state 0 <= availableTickets <= totalTickets, under any
\* interleaving of createBooking (with its rollback), cancelBooking and updateEvent.
C1_AvailableWithinTotal ==
    /\ 0 <= event.availableTickets
    /\ event.availableTickets <= event.totalTickets


\* no createBooking or cancelBooking request is between its steps
Quiescent == \A c \in Creates \cup Cancels : Returned(c)

\* A Booking document stands for one ticket: the schema has no quantity field.
ConfirmedQuantity == Cardinality(ConfirmedIds)

\* C2: whenever no createBooking or cancelBooking request is in flight,
\* totalTickets - availableTickets is the number of tickets held by confirmed bookings,
\* even when no store operation has failed.
C2_Conservation ==
    (Quiescent /\ faults = 0) =>
        event.totalTickets - event.availableTickets = ConfirmedQuantity

\* C3: K createBooking(quantity 1) requests with pairwise distinct keys on an event
\* with C < K tickets end with exactly C bookings created, K - C conflicts and
\* availableTickets = 0.
C3_ExactlyCapacitySucceed ==
    LET K == Len(calls)
        C == event.totalTickets
    IN  ( /\ Creates = CallIds
          /\ \A c \in CallIds : Returned(c) /\ calls[c].qty = 1
          /\ \A c, d \in CallIds : c # d => calls[c].key # calls[d].key
          /\ K > C
          /\ faults = 0 )
        => /\ Cardinality({c \in CallIds : Created(c)}) = C
           /\ Cardinality({c \in CallIds : Refused(c)}) = K - C
           /\ event.availableTickets = 0

RECURSIVE SumQty(_)
SumQty(S) == IF S = {} THEN 0
             ELSE LET c == CHOOSE x \in S : TRUE IN calls[c].qty + SumQty(S \ {c})

\* two createBooking(quantity 1) requests with different keys, alone on an event whose
\* last ticket is the only one
LastTicketRace ==
    /\ Len(calls) = 2
    /\ Creates = CallIds
    /\ event.totalTickets = 1
    /\ calls[1].qty = 1 /\ calls[2].qty = 1
    /\ calls[1].key # calls[2].key
    /\ Returned(1) /\ Returned(2)

\* C4 as stated: with only createBooking requests on the event, the quantities of the
\* requests whose guarded decrement was applied sum to at most the tickets available at
\* the start, and of two requests racing for the last ticket exactly one gets a booking
\* and the other a conflict.
C4_AppliedDecrementsWithinStart ==
    /\ SumQty({c \in Creates : calls[c].dec = 1}) <= event.totalTickets
    /\ LastTicketRace =>
         \/ Created(1) /\ Refused(2)
         \/ Created(2) /\ Refused(1)

\* C4 amended: the quantities of the requests whose guarded decrement was applied and
\* not rolled back sum to at most the tickets available at the start; two requests
\* racing for the last ticket never both get a booking, and when no store operation
\* fails exactly one does and the other gets a conflict.
C4_HeldDecrementsWithinStart ==
    /\ SumQty({c \in Creates : calls[c].dec = 1 /\ calls[c].inc = 0}) <= event.totalTickets
    /\ LastTicketRace =>
         /\ ~(Created(1) /\ Created(2))
         /\ faults = 0 =>
              \/ Created(1) /\ Refused(2)
              \/ Created(2) /\ Refused(1)

\* two overlapping requests raced for the last ticket: one booked it, one was refused
C4_Witness ==
    /\ LastTicketRace
    /\ 1 \notin calls[2].after
    /\ calls[1].dec + calls[2].dec = 1
    /\ faults = 0
    /\ \E c \in {1, 2} : Created(c)
    /\ \E c \in {1, 2} : Refused(c)

\* d repeats c: the same user, key and quantity, issued after c was answered 201
Repeats(d, c) ==
    /\ c \in Creates /\ d \in Creates
    /\ c \in calls[d].after
    /\ Created(c)
    /\ calls[d].key = calls[c].key
    /\ calls[d].user = calls[c].user
    /\ calls[d].qty = calls[c].qty

\* C5: a createBooking repeated with the same key after the first was answered gets
\* the first response again, inserts no Booking and leaves availableTickets as it was.
C5_ReplayIdentical ==
    \A c, d \in CallIds :
        (Repeats(d, c) /\ Returned(d)) =>
            /\ calls[d].res = calls[c].res
            /\ calls[d].made = {}
            /\ calls[d].dec = calls[d].inc

\* C6: two createBooking requests with one key that both get past the ledger and the
\* findOne lookup and both decrement: one keeps its booking, the other is rolled back
\* and answered with a conflict.
C6_DuplicateKeyRace ==
    \A c, d \in Creates :
        ( /\ c # d
          /\ calls[c].key = calls[d].key
          /\ calls[c].qty = calls[d].qty
          /\ calls[c].dec = 1 /\ calls[d].dec = 1
          /\ Returned(c) /\ Returned(d)
          /\ faults = 0
          /\ calls[c].made # {} )
        => /\ Created(c)
           /\ calls[d].made = {}
           /\ calls[d].inc = 1
           /\ Refused(d)

\* C7: a createBooking that decremented and then failed has had its increment of the
\* same quantity applied to the event when it returns its error.
C7_RollbackRestores ==
    \A c \in Creates :
        (Returned(c) /\ calls[c].err # Nil /\ calls[c].dec = 1) => calls[c].inc = 1

\* C8: cancelling the booking that createBooking(quantity q) returned puts back the q
\* tickets: with nothing else on the event, availableTickets is again totalTickets.
C8_CancelRestoresQuantity ==
    ( /\ Len(calls) = 2
      /\ calls[1].op = "create" /\ Created(1)
      /\ calls[2].op = "cancel" /\ 1 \in calls[2].after
      /\ calls[2].bid = calls[1].res.id
      /\ Returned(2) /\ calls[2].res.statusCode = OK )
    => event.availableTickets = event.totalTickets

\* C9: however many cancelBooking requests run on one confirmed booking, the event is
\* credited for it once: one request succeeds and the others get a conflict, even
\* when no store operation fails.
C9_NoDoubleCredit ==
    faults = 0 =>
        \A b \in BookingIds :
            LET on == {c \in Cancels : calls[c].bid = b} IN
            /\ Cardinality({c \in on : calls[c].inc > 0}) <= 1
            /\ Cardinality({c \in on : Returned(c) /\ calls[c].res.statusCode = OK}) <= 1

\* C10: a createBooking whose key is in the ledger is answered with the stored
\* response as it is, and the step changes no document and no cache entry.
C10_ReplayShortCircuit ==
    [][\A c \in CallIds :
          (At(c, "create", "middleware") /\ calls'[c].hit) =>
              /\ calls'[c].res = ledger[calls[c].key]
              /\ Returned(c)'
              /\ calls'[c].dec = 0 /\ calls'[c].made = {}
              /\ event' = event
              /\ bookings' = bookings
              /\ availCache' = availCache
              /\ ledger' = ledger]_vars

\* a request was answered from the ledger with a booking that is cancelled by now
C10_Witness ==
    \E c \in Creates :
        /\ Returned(c) /\ calls[c].hit
        /\ calls[c].res.statusCode = CREATED
        /\ bookings[calls[c].res.id].status = "cancelled"
        /\ calls[c].dec = 0 /\ calls[c].made = {}

\* the request's header key or body key is absent or is not a UUID
InvalidKey(c) == ~ValidHeader(c) \/ ~ValidateBody(c)

\* C11: a createBooking request whose idempotency key is absent or is not a UUID is
\* answered with a validation error (400), and handling it changes neither the event,
\* nor the bookings, nor the ledger, nor the availability cache.
C11_InvalidKeyRejected ==
    [][\A c \in CallIds :
          (At(c, "create", "middleware") /\ InvalidKey(c) /\ calls'[c] # calls[c]) =>
              /\ Returned(c)'
              /\ calls'[c].res.statusCode = BAD_REQUEST
              /\ event' = event
              /\ bookings' = bookings
              /\ ledger' = ledger
              /\ availCache' = availCache]_vars

\* C12: while Redis is unreachable no createBooking, cancelBooking or getAvailability
\* request fails for that reason: every cache read is a miss, every cache write and
\* delete leaves the entries as they are, and the request goes on and answers as it
\* does with a reachable, empty cache.
C12_CacheFailOpen ==
    [][~redisUp =>
         /\ ledger' = ledger
         /\ availCache' = availCache
         /\ \A c \in CallIds :
              calls'[c] # calls[c] =>
                /\ calls'[c].hit = calls[c].hit
                /\ (At(c, "create", "middleware") /\ ~InvalidKey(c)) =>
                      calls'[c].pc = "findOne"
                /\ At(c, "availability", "load") => calls'[c].pc = "read"
                /\ At(c, "create", "invalidate") =>
                      IF calls[c].err = Nil THEN calls'[c].pc = "cachePut"
                      ELSE Returned(c)' /\ calls'[c].err = calls[c].err
                /\ At(c, "create", "cachePut") =>
                      Returned(c)' /\ calls'[c].err = Nil /\ calls'[c].res = calls[c].res
                /\ At(c, "cancel", "invalidate") =>
                      Returned(c)' /\ calls'[c].res.statusCode = OK
                /\ At(c, "availability", "cacheSet") =>
                      /\ Returned(c)' /\ calls'[c].res.statusCode = OK
                      /\ calls'[c].seen = calls[c].snap]_vars

\* a repeated request missed the ledger entry of the first because Redis was down
C12_Witness ==
    /\ Len(calls) = 2
    /\ Repeats(2, 1)
    /\ calls[2].pc = "findOne"
    /\ ~redisUp
    /\ ledger[calls[2].key] # NoResponse

\* the createBooking requests that carry key k
Carrying(k) == {c \in Creates : calls[c].key = k}

\* C13: of the createBooking requests that carry one key with the same user and
\* quantity, whatever happens to the ledger, at most one has its bookings stored, and
\* once they have all returned at most one decrement of the event is left standing.
C13_LedgerLossSafe ==
    \A k \in Keys :
        (\A c, d \in Carrying(k) :
            calls[c].qty = calls[d].qty /\ calls[c].user = calls[d].user)
        => /\ Cardinality({c \in Carrying(k) : calls[c].made # {}}) <= 1
           /\ (\A c \in Carrying(k) : Returned(c)) =>
                 Cardinality({c \in Carrying(k) :
                                calls[c].dec = 1 /\ calls[c].inc = 0}) <= 1

\* a two-ticket request was repeated after its answer with the ledger out of reach: the
\* repeat decremented, was stopped by the unique keys of the stored tickets, and was
\* rolled back
C13_Witness ==
    /\ Len(calls) = 2
    /\ Repeats(2, 1)
    /\ calls[1].qty = 2
    /\ Returned(2) /\ ~calls[2].hit
    /\ calls[2].dec = 1 /\ calls[2].inc = 1 /\ calls[2].made = {}
    /\ faults = 0

\* C14: the save of updateEvent changes availableTickets by exactly the change of
\* totalTickets, counted from the value the event holds when the save is applied; and
\* once every request has returned, with no store failure, availableTickets >= 0 and
\* totalTickets - availableTickets is the number of tickets held by confirmed bookings.
C14_EditKeepsConservation ==
    [][/\ \A c \in CallIds :
            (At(c, "update", "save") /\ calls'[c].pc = "invalidate") =>
                event'.availableTickets - event.availableTickets
                    = event'.totalTickets - event.totalTickets
       /\ ((\A c \in DOMAIN calls' : calls'[c].pc = "done") /\ faults' = 0) =>
            /\ event'.availableTickets >= 0
            /\ event'.totalTickets - event'.availableTickets = ConfirmedQuantity']_vars

\* the booking of a cancelBooking request is missing, or is another user's
Missing(c) == calls[c].bid \notin BookingIds
NotOwner(c) == ~Missing(c) /\ bookings[calls[c].bid].userId # calls[c].user

NotFoundAnswer(c) == calls[c].err = "NotFoundError" /\ calls[c].res = ErrorResponse("NotFoundError")

\* C15 as stated: cancelBooking answers NotFound exactly when the booking is missing or
\* is another user's and the caller is no administrator, with the same error in both
\* cases and no change to the booking or the event; an administrator is not refused
\* another user's booking.
C15_NotFoundUnlessElevated ==
    \A c \in Cancels :
        Returned(c) =>
            /\ (calls[c].res.statusCode = NOT_FOUND)
                  <=> (Missing(c) \/ (NotOwner(c) /\ calls[c].role # "admin"))
            /\ calls[c].res.statusCode = NOT_FOUND =>
                  NotFoundAnswer(c) /\ ~calls[c].marked /\ calls[c].inc = 0

\* C15 amended: cancelBooking answers NotFound exactly when the booking is missing or
\* is another user's, whatever the caller's role, with the same error in both cases and
\* no change to the booking or the event.
C15_NotFoundUnlessOwner ==
    \A c \in Cancels :
        Returned(c) =>
            /\ (calls[c].res.statusCode = NOT_FOUND) <=> (Missing(c) \/ NotOwner(c))
            /\ calls[c].res.statusCode = NOT_FOUND =>
                  NotFoundAnswer(c) /\ ~calls[c].marked /\ calls[c].inc = 0

\* an administrator was refused a confirmed booking of another user, and a request for
\* a missing booking got the same answer
C15_Witness ==
    \E c, d \in Cancels :
        /\ Returned(c) /\ Returned(d)
        /\ NotOwner(c) /\ calls[c].role = "admin"
        /\ bookings[calls[c].bid].status = "confirmed"
        /\ Missing(d)
        /\ calls[c].res = calls[d].res
        /\ calls[c].res.statusCode = NOT_FOUND

\* what a step of createBooking can leave behind, one component at a time
Pcs == {"findOne", "findEvent", "decrement", "count", "insert", "readBack",
        "rollback", "invalidate", "cachePut", "done"}
Codes == {0, CREATED, BAD_REQUEST, NOT_FOUND, CONFLICT, INTERNAL_SERVER_ERROR}

CanLeavePc(c, p) == ENABLED (CreateBooking(c) /\ calls'[c].pc = p)
CanLeaveCode(c, code) == ENABLED (CreateBooking(c) /\ calls'[c].res.statusCode = code)
CanLeaveAvailable(c, a) == ENABLED (CreateBooking(c) /\ event'.availableTickets = a)
CanLeaveBookings(c, n) == ENABLED (CreateBooking(c) /\ Len(bookings') = n)
CanLeaveLedger(c, code) ==
    ENABLED (CreateBooking(c) /\ ledger'[calls[c].key].statusCode = code)

\* C16: take two states that differ in the availability entry only, absent in one. Every step of
\* every createBooking request can lead to the same position and answer of the
\* request, the same event, the same bookings and the same ledger from both; so two
\* runs that differ in the contents of the availability cache answer every
\* createBooking alike and keep the same event and bookings.
C16_CacheIndependent ==
    [][(availCache' # availCache /\ UNCHANGED <<event, bookings, ledger, redisUp, calls, faults>>) =>
         \A c \in Creates \cap InFlight :
            /\ \A p \in Pcs : CanLeavePc(c, p) = CanLeavePc(c, p)'
            /\ \A code \in Codes : CanLeaveCode(c, code) = CanLeaveCode(c, code)'
            /\ \A a \in 0..MaxTotal : CanLeaveAvailable(c, a) = CanLeaveAvailable(c, a)'
            /\ \A n \in 0..(MaxCalls * MaxQty) :
                  CanLeaveBookings(c, n) = CanLeaveBookings(c, n)'
            /\ \A code \in {0, CREATED} :
                  CanLeaveLedger(c, code) = CanLeaveLedger(c, code)']_vars

\* a request is about to run its guarded decrement, the event has the tickets, and
\* the availability entry says the event is sold out
C16_Witness ==
    \E c \in Creates :
        /\ calls[c].pc = "decrement"
        /\ event.availableTickets >= calls[c].qty
        /\ availCache # NoSnapshot
        /\ availCache.availableTickets = 0

\* Request 1 booked; after its answer, a createBooking with another key and a
\* cancelBooking of a ticket of request 1 were issued, in either order, one after the
\* other or overlapping, and both succeeded.
CreateAndCancel(cr, ca) ==
    /\ Len(calls) = 3
    /\ {cr, ca} = {2, 3}
    /\ calls[1].op = "create" /\ Created(1) /\ calls[1].made # {}
    /\ 1 \in calls[2].after /\ 1 \in calls[3].after
    /\ calls[cr].op = "create" /\ calls[cr].key # calls[1].key
    /\ calls[ca].op = "cancel" /\ calls[ca].bid \in calls[1].made
    /\ Created(cr) /\ calls[cr].made # {}
    /\ Returned(ca) /\ calls[ca].res.statusCode = OK

\* C17: when a createBooking and a cancelBooking of another, confirmed booking of the
\* same event both succeed, the final availableTickets, version and Booking documents
\* are the same whatever the order and the interleaving of their steps: the count is
\* the start less the new quantity plus one, the version has grown by two, the
\* cancelled booking is cancelled and the new tickets follow the old ones.
C17_CreateCancelCommute ==
    \A cr, ca \in CallIds :
        CreateAndCancel(cr, ca) =>
            LET q1 == calls[1].qty
                q2 == calls[cr].qty
            IN  /\ event.availableTickets = event.totalTickets - q1 - q2 + 1
                /\ event.version = 3
                /\ Len(bookings) = q1 + q2
                /\ \A b \in 1..q1 :
                      bookings[b].status =
                          IF b = calls[ca].bid THEN "cancelled" ELSE "confirmed"
                /\ \A b \in (q1 + 1)..(q1 + q2) :
                      /\ bookings[b].status = "confirmed"
                      /\ bookings[b].userId = calls[cr].user
                      /\ bookings[b].ticketNumber = generateTicketNumber(EventShortId, b)

\* the two requests overlapped: the later one arrived before the earlier one returned
C17_Witness ==
    \E cr, ca \in CallIds :
        /\ CreateAndCancel(cr, ca)
        /\ 2 \notin calls[3].after

\* request c is at its pre-check or at its guarded decrement and the event, which is
\* not deleted, has fewer tickets than it asks for
LacksCapacity(c) ==
    /\ At(c, "create", "findEvent") \/ At(c, "create", "decrement")
    /\ ~event.deleted
    /\ event.availableTickets < calls[c].qty

\* C18: a createBooking refused for lack of tickets, at the pre-check or at the guarded
\* decrement, is answered with a conflict; it inserts no booking, runs no rollback,
\* writes no ledger entry and leaves the event, its count and its version, as it was.
C18_RefusalChangesNothing ==
    [][\A c \in CallIds :
          (LacksCapacity(c) /\ calls'[c] # calls[c]) =>
              /\ Returned(c)'
              /\ calls'[c].res.statusCode = CONFLICT
              /\ calls'[c].made = {} /\ calls'[c].dec = 0 /\ calls'[c].inc = 0
              /\ event' = event
              /\ bookings' = bookings
              /\ ledger' = ledger]_vars

\* one request was refused and left no trace, and another, which passed the pre-check
\* while there were tickets, stands before its guarded decrement with too few left
C18_Witness ==
    \E c, d \in Creates :
        /\ Refused(d)
        /\ calls[d].dec = 0 /\ calls[d].made = {}
        /\ ledger[calls[d].key] = NoResponse
        /\ calls[c].pc = "decrement"
        /\ ~event.deleted /\ event.availableTickets < calls[c].qty

\* request c has written to the event and has not yet passed its invalidateCache
Pending(c) ==
    \/ calls[c].op = "create" /\
          calls[c].pc \in {"count", "insert", "readBack", "rollback", "invalidate"}
    \/ calls[c].op = "cancel" /\ calls[c].pc = "invalidate" /\ calls[c].inc = 1
    \/ calls[c].op = "update" /\ calls[c].pc = "invalidate"
          /\ calls[c].newTotal # calls[c].snap.totalTickets
    \/ calls[c].op = "delete" /\ calls[c].pc = "invalidate"

\* C19 as stated: a request that writes to the event (createBooking with or without
\* rollback, cancelBooking, updateEvent, deleteEvent) does not return before it has
\* passed invalidateCache, after its last write, and that step deletes the
\* availability entry.
C19_WriteInvalidate ==
    [][\A c \in CallIds :
          /\ (event' # event /\ calls'[c] # calls[c]) => Pending(c)'
          /\ (Pending(c) /\ ~Pending(c)') =>
                /\ calls[c].pc = "invalidate"
                /\ availCache' = NoSnapshot]_vars

\* C19 amended: as C19, but the step deletes the availability entry when Redis is
\* reachable at that moment and leaves it as it is when Redis is not.
C19_WriteInvalidateIfReachable ==
    [][\A c \in CallIds :
          /\ (event' # event /\ calls'[c] # calls[c]) => Pending(c)'
          /\ (Pending(c) /\ ~Pending(c)') =>
                /\ calls[c].pc = "invalidate"
                /\ availCache' = IF redisUp THEN NoSnapshot ELSE availCache]_vars

\* getAvailability was answered from the cache; a createBooking issued after that has
\* booked and returned, and the entry is gone
C19_Witness ==
    \E b, c \in CallIds :
        /\ calls[b].op = "availability" /\ calls[b].hit
        /\ b \in calls[c].after
        /\ calls[c].op = "create" /\ Created(c) /\ calls[c].dec = 1
        /\ redisUp
        /\ availCache = NoSnapshot

\* C20: a soft-deleted event never has a confirmed booking, whatever the interleaving
\* of deleteEvent with createBooking and cancelBooking, and no createBooking stores
\* its bookings or is answered 201 for them on a soft-deleted event.
C20_DeletedHasNoConfirmed ==
    [][/\ event'.deleted => ConfirmedIds' = {}
       /\ Len(bookings') > Len(bookings) => ~event.deleted
       /\ \A c \in CallIds :
            (calls[c].op = "create" /\ ~Returned(c) /\ Created(c)' /\ calls'[c].made # {})
                => ~event'.deleted]_vars

\* C21: Event.version only grows: every step that changes the Event document (the
\* guarded decrement, the rollback increment, the cancellation increment, the save of
\* updateEvent, the soft delete) leaves version strictly greater than it was.
C21_VersionMonotone ==
    [][event' # event => event'.version > event.version]_vars

\* C22: Booking documents are append-only: none is ever removed; userId, ticketNumber
\* and idempotencyKey of a stored document never change; a cancelled document never
\* becomes confirmed again; and the only step that changes a stored document is the
\* save of a cancelBooking on that document, which changes its status and nothing else.
C22_AppendOnly ==
    [][/\ Len(bookings') >= Len(bookings)
       /\ \A b \in BookingIds :
            /\ bookings'[b].userId = bookings[b].userId
            /\ bookings'[b].ticketNumber = bookings[b].ticketNumber
            /\ bookings'[b].idempotencyKey = bookings[b].idempotencyKey
            /\ bookings[b].status = "cancelled" => bookings'[b].status = "cancelled"
            /\ bookings'[b] # bookings[b] =>
                 \E c \in CallIds : /\ At(c, "cancel", "save")
                                    /\ calls[c].bid = b
                                    /\ calls'[c].marked]_vars

\* a booking was cancelled by a cancelBooking that has returned, and bookings were
\* stored after it
C22_Witness ==
    \E c \in Cancels :
        /\ Returned(c) /\ calls[c].marked
        /\ bookings[calls[c].bid].status = "cancelled"
        /\ Len(bookings) > calls[c].bid

\* C28: the rollback increment of a createBooking runs only when none of the Booking
\* documents of that request is stored: a request that inserted its documents never
\* reaches the rollback nor credits the tickets back.
C28_RollbackOnlyWithoutInsert ==
    \A c \in Creates :
        calls[c].made # {} => (calls[c].pc # "rollback" /\ calls[c].inc = 0)

\* C23: a createBooking that ends in an error leaves neither a ledger entry nor a
\* Booking document for its key: while every request that carried a key has been
\* answered with an error, the ledger has no entry for the key and no stored booking
\* has the key (or one of its per-ticket keys), so a retry runs afresh.
C23_ErrorLeavesNoTrace ==
    \A k \in Keys :
        (/\ Carrying(k) # {}
         /\ \A c \in Carrying(k) : Returned(c) /\ calls[c].err # Nil)
            => /\ ledger[k] = NoResponse
               /\ \A b \in BookingIds :
                    /\ bookings[b].idempotencyKey # SingleKey(k)
                    /\ \A i \in 0..(MaxQty - 1) : bookings[b].idempotencyKey # UnitKey(k, i)

\* C29: after a createBooking with quantity q >= 2 has returned, the Booking documents
\* it stored are either q with availableTickets net-decremented by q on its behalf, or
\* none with availableTickets net-unchanged on its behalf; never between 1 and q - 1.
C29_MultiAllOrNothing ==
    \A c \in Creates :
        (Returned(c) /\ calls[c].qty >= 2) =>
            LET stored == Cardinality(calls[c].made)
                net == calls[c].qty * (calls[c].dec - calls[c].inc)
            IN \/ stored = calls[c].qty /\ net = calls[c].qty
               \/ stored = 0 /\ net = 0

\* C27: cancelBooking is all-or-nothing: a call that returned an error has neither
\* marked the booking cancelled nor credited a ticket, and a call that marked the
\* booking cancelled has credited its ticket by the time it returns.
C27_CancelAllOrNothing ==
    \A c \in Cancels :
        Returned(c) =>
            /\ calls[c].err # Nil => (~calls[c].marked /\ calls[c].inc = 0)
            /\ calls[c].marked => calls[c].inc = 1

\* C25: createBooking never answers a caller with a booking of another user: the
\* booking in a 201 response, replayed from the ledger or found by its key, belongs
\* to the user who sent the request.
C25_OwnBookingOnly ==
    \A c \in Creates :
        Created(c) => bookings[calls[c].res.id].userId = calls[c].user

\* the createBooking and cancelBooking requests that changed availableTickets
Writers == {c \in Creates \cup Cancels : calls[c].dec > 0 \/ calls[c].inc > 0}

\* C26: no stale repopulation: once every createBooking and cancelBooking that
\* changed availableTickets has returned, the availability entry is absent or holds
\* the live totalTickets and availableTickets, also when a getAvailability was in
\* flight beside the write; and a getAvailability that arrives then is answered with
\* the live values.
C26_NoStaleRepopulation ==
    (\A c \in Creates \cup Cancels : Returned(c)) =>
        /\ availCache # NoSnapshot =>
             /\ availCache.availableTickets = event.availableTickets
             /\ availCache.totalTickets = event.totalTickets
        /\ \A a \in CallIds :
             (/\ calls[a].op = "availability"
              /\ Returned(a) /\ calls[a].err = Nil
              /\ Writers # {}
              /\ Writers \subseteq calls[a].after)
                 => calls[a].seen.availableTickets = event.availableTickets

\* the order of the steps of POST /bookings
Position(pc) ==
    CASE pc = "middleware" -> 1
      [] pc = "findOne" -> 2
      [] pc = "findEvent" -> 3
      [] pc = "decrement" -> 4
      [] pc = "count" -> 5
      [] pc = "insert" -> 6
      [] pc = "readBack" -> 7
      [] pc = "rollback" -> 8
      [] pc = "invalidate" -> 9
      [] pc = "cachePut" -> 10
      [] pc = "done" -> 11

\* C24: createBooking has no retry loop: every step of a request moves it forward in
\* the order of its steps, so that it attempts the guarded decrement at most once and
\* the rollback increment at most once, and every request is answered (with a booking
\* or an error) however many other requests contend, given that every store and
\* cache operation returns.
C24_NoRetryTerminates ==
    /\ [][\A c \in Creates :
            /\ calls'[c] # calls[c] => Position(calls'[c].pc) > Position(calls[c].pc)
            /\ calls'[c].dec <= 1
            /\ calls'[c].inc <= 1]_vars
    /\ \A c \in 1..MaxCalls :
         [](c \in Creates =>
               <>(c \in Creates /\ Returned(c) /\ calls[c].res # NoResponse))

\* two concurrent createBooking requests have returned, one of them after a rollback
C24_Witness ==
    \E c, d \in Creates :
        /\ c # d /\ Returned(c) /\ Returned(d)
        /\ c \notin calls[d].after /\ d \notin calls[c].after
        /\ calls[c].dec = 1 /\ calls[c].inc = 1

\* C30: no booking is created for an event whose status is not published: a
\* createBooking stores its bookings and applies its decrement only while the event is
\* published, whatever status edits and createBooking requests came before.
C30_OnlyPublishedIsBooked ==
    [][/\ Len(bookings') > Len(bookings) => event.status = "published"
       /\ event'.availableTickets < event.availableTickets => event.status = "published"]_vars
====
